---- MODULE Spec2Model ----
(***************************************************************************)
(* Model of ipcam26Xconvert: the two passes of main() over a camera        *)
(* ".264" file (inference of the stream parameters, then extraction of the *)
(* packets handed to the muxer) and of ReadToBuffer, the growable buffer.  *)
(* The input file is a sequence of bytes; 32-bit fields are little-endian. *)
(***************************************************************************)
EXTENDS Integers, Sequences, FiniteSets, TLC

(***************************************************************************)
(* Program constants (ipcamvideofilefmt.h).                                *)
(***************************************************************************)
HXVS == 1398167624
HXVT == 1414944840
HXVF == 1180063816
HXAF == 1178687560
HXFI == 1229346888

\* sizeof(hx_frame.header), sizeof(HXVSFrame_t), sizeof(HXVFFrame_t),
\* sizeof(HXAFFrame_t), sizeof(HXFIFrame_t)
TagSize == 4
HXVSFrameSize == 12
HXVFFrameSize == 12
HXAFFrameSize == 16
HXFIFrameSize == 16

(***************************************************************************)
(* Bounds of the model.                                                    *)
(***************************************************************************)
MaxPackets == 3
MaxVideo == 4
MaxAV == 4
MaxTs == 4
MaxFrames == 4

(***************************************************************************)
(* Values.  A byte of allocated but never written memory is Indet.  A      *)
(* quantity that may reach 2^32 is kept as w * 2^32 + r (a "wide" number). *)
(***************************************************************************)
Indet == 0 - 1
Crash == 0 - 2

Wide(w, r) == [w |-> w, r |-> r]
WAdd(x, n) == [w |-> x.w, r |-> x.r + n]
WPlus(x, y) == [w |-> x.w + y.w, r |-> x.r + y.r]

Min(a, b) == IF a < b THEN a ELSE b
Abs(a) == IF a < 0 THEN 0 - a ELSE a

(***************************************************************************)
(* The type double (IEEE 754 binary64, round to nearest even) for values   *)
(* that are not negative.  A mantissa is kept in three limbs of 18 bits,   *)
(* a * 2^36 + b * 2^18 + c; a double is m * 2^e with 2^52 <= m < 2^53, or  *)
(* zero.  Exponents stay far inside the range of the type.                 *)
(***************************************************************************)
Limb == 2^18
IntMax == 2147483647
IntMin == 0 - IntMax - 1

Mant(a, b, c) == [a |-> a, b |-> b, c |-> c]
MantZero == Mant(0, 0, 0)
Carry(a, b, c) ==
    LET b1 == b + c \div Limb
    IN  Mant(a + b1 \div Limb, b1 % Limb, c % Limb)
\* the number of bits of n, 0 <= n
BitLen(n) ==
    IF n >= 2^30 THEN 31
    ELSE CHOOSE k \in 0..30 : n < 2^k /\ (k = 0 \/ n >= 2^(k - 1))
\* m * 2^k, 0 <= k <= 12
ShiftL(m, k) == Carry(m.a * 2^k, m.b * 2^k, m.c * 2^k)
\* the value of a set of one element: { F(v) : v \in {e} } is F(e) with e
\* evaluated once
Only(S) == CHOOSE v \in S : TRUE
\* m / 2^k rounded down
RECURSIVE ShiftR(_, _)
ShiftR(m, k) ==
    Only({ IF k = 0 THEN v
           ELSE IF k >= 18 THEN ShiftR(Carry(0, v.a, v.b), k - 18)
           ELSE Mant(v.a \div 2^k, v.b \div 2^k + (v.a % 2^k) * (Limb \div 2^k),
                     v.c \div 2^k + (v.b % 2^k) * (Limb \div 2^k)) : v \in {m} })
\* some of the k lowest bits of m is set
LowBits(m, k) ==
    IF k >= 54 THEN m # MantZero
    ELSE IF k >= 36 THEN m.c # 0 \/ m.b # 0 \/ m.a % 2^(k - 36) # 0
    ELSE IF k >= 18 THEN m.c # 0 \/ m.b % 2^(k - 18) # 0
    ELSE m.c % 2^k # 0
\* m / 2^k where a lost 1 is kept in the lowest bit, m < 2^54 when k >= 54
ShiftRJam(m, k) ==
    Only({ Only({ IF LowBits(v, k) /\ s.c % 2 = 0 THEN Mant(s.a, s.b, s.c + 1) ELSE s :
                  s \in {ShiftR(v, IF k >= 54 THEN 54 ELSE k)} }) : v \in {m} })
MantGE(x, y) ==
    IF x.a # y.a THEN x.a > y.a
    ELSE IF x.b # y.b THEN x.b > y.b
    ELSE x.c >= y.c
\* x - y for x >= y
MantSub(x, y) ==
    LET c == x.c - y.c
        bc == IF c < 0 THEN 1 ELSE 0
        b == x.b - y.b - bc
        bb == IF b < 0 THEN 1 ELSE 0
    IN  Mant(x.a - y.a - bb, b + bb * Limb, c + bc * Limb)
MantAdd(x, y) == Carry(x.a + y.a, x.b + y.b, x.c + y.c)

Dbl(m, e) == [m |-> m, e |-> e]
DblZero == Dbl(MantZero, 0)
DblPositive(x) == x.m # MantZero

\* m of 55 bits to the nearest of 53 bits, ties to the even one
RoundBits(m, e) ==
    Only({ Only({ IF r.a >= Limb \div 2 THEN Dbl(ShiftR(r, 1), e + 3) ELSE Dbl(r, e + 2) :
                  r \in {IF m.c % 4 = 3 \/ (m.c % 4 = 2 /\ q.c % 2 = 1)
                         THEN Carry(q.a, q.b, q.c + 1) ELSE q} }) :
           q \in {ShiftR(m, 2)} })

\* the double nearest to m * 2^e, where the lowest bit of m stands for all
\* that was lost below it
RECURSIVE RoundExt(_, _)
RoundExt(m, e) ==
    Only({ IF v = MantZero THEN DblZero
           ELSE IF v.a = 0
           THEN IF v.b = 0 THEN RoundExt(Mant(v.c, 0, 0), e - 36)
                ELSE RoundExt(Mant(v.b, v.c, 0), e - 18)
           ELSE Only({ IF n > 19 THEN RoundExt(ShiftRJam(v, n - 19), e + (n - 19))
                       ELSE IF n < 19
                       THEN RoundExt(ShiftL(v, Min(19 - n, 12)), e - Min(19 - n, 12))
                       ELSE RoundBits(v, e) : n \in {BitLen(v.a)} }) : v \in {m} })

\* (double) n for an integer 0 <= n < 2^31, and for a wide number
DblOfInt(n) == RoundExt(Mant(0, n \div Limb, n % Limb), 0)
DblOfWide(x) == RoundExt(Carry(0, x.w * (Limb \div 16) + x.r \div Limb, x.r % Limb), 0)

\* x * (double) n for an integer 0 <= n < 2^13
DblMulInt(x, n) ==
    Only({ RoundExt(Carry(v.m.a * n, v.m.b * n, v.m.c * n), v.e) : v \in {x} })

\* one more digit of 8 bits of the quotient rem / d, for rem < d
DivDigit(q, rem, d) ==
    Only({ Only({ Only({ IF MantGE(r1, d)
                         THEN [q |-> Carry(q.a * 256, q.b * 256, q.c * 256 + qh + 1),
                               rem |-> MantSub(r1, d)]
                         ELSE [q |-> Carry(q.a * 256, q.b * 256, q.c * 256 + qh),
                               rem |-> r1] :
                         r1 \in {MantSub(r8, Carry(d.a * qh, d.b * qh, d.c * qh))} }) :
                  qh \in {r8.a \div (d.a + 1)} }) :
           r8 \in {ShiftL(rem, 8)} })

\* n more digits
RECURSIVE DivDigits(_, _, _)
DivDigits(s, d, n) ==
    IF n = 0 THEN s
    ELSE Only({ DivDigits(DivDigit(v.q, v.rem, d), d, n - 1) : v \in {s} })

\* x / y, y > 0
DblDiv(x, y) ==
    Only({ IF a.x.m = MantZero THEN DblZero
           ELSE Only({ RoundExt(IF r.rem # MantZero /\ r.q.c % 2 = 0
                                THEN Mant(r.q.a, r.q.b, r.q.c + 1) ELSE r.q,
                                a.x.e - a.y.e - 56) :
                       r \in {DivDigits(IF MantGE(a.x.m, a.y.m)
                                        THEN [q |-> Mant(0, 0, 1),
                                              rem |-> MantSub(a.x.m, a.y.m)]
                                        ELSE [q |-> MantZero, rem |-> a.x.m],
                                        a.y.m, 7)} }) :
           a \in {[x |-> x, y |-> y]} })

\* x + y
DblAdd(x, y) ==
    Only({ IF a.x.m = MantZero THEN a.y
           ELSE IF a.y.m = MantZero THEN a.x
           ELSE LET hi == IF a.x.e >= a.y.e THEN a.x ELSE a.y
                    lo == IF a.x.e >= a.y.e THEN a.y ELSE a.x
                IN  RoundExt(MantAdd(ShiftL(hi.m, 3),
                                     ShiftRJam(ShiftL(lo.m, 3), hi.e - lo.e)),
                             hi.e - 3) :
           a \in {[x |-> x, y |-> y]} })

\* (int) round(x): round() takes halves away from zero; the conversion of a
\* value beyond INT_MAX is undefined (INT_MIN on x86-64, INT_MAX where the
\* conversion saturates)
IntOfRound(x) ==
    Only({ IF v.m = MantZero THEN {0}
           ELSE IF v.e > 0 - 22 THEN {IntMin, IntMax}
           ELSE IF v.e < 0 - 53 THEN {0}
           ELSE Only({ Only({ IF i.a # 0 \/ i.b >= Limb \div 32 THEN {IntMin, IntMax}
                              ELSE IF i.b * Limb + i.c = IntMax /\ h.c % 2 = 1
                              THEN {IntMin, IntMax}
                              ELSE {i.b * Limb + i.c + (h.c % 2)} :
                              i \in {ShiftR(h, 1)} }) :
                       h \in {ShiftR(v.m, 0 - v.e - 1)} }) : v \in {x} })

\* x is n / d within floating-point tolerance: x * d is n to 2^-17, for
\* 0 < d < 2^13 and 0 <= n < 2^15
NearRatio(x, n, d) ==
    Only({ IntOfRound(Dbl(p.m, p.e + 16)) = {n * 65536} : p \in {DblMulInt(x, d)} })

(***************************************************************************)
(* The input file format: how a packet is laid out in bytes.               *)
(***************************************************************************)
LE32(n) == << n % 256, (n \div 256) % 256, (n \div 65536) % 256,
              (n \div 16777216) % 256 >>

Zeros(n) == [i \in 1..n |-> 0]

\* packets of the file: k is the tag, a and b the two header fields,
\* data the bytes that follow the header
Pkt(k, a, b, data) == [k |-> k, a |-> a, b |-> b, data |-> data]

Encode(p) ==
    IF p.k = HXVS \/ p.k = HXVT
        THEN LE32(p.k) \o LE32(p.a) \o LE32(p.b) \o Zeros(4) \o p.data
    ELSE IF p.k = HXVF
        THEN LE32(p.k) \o LE32(p.a) \o LE32(p.b) \o Zeros(4) \o p.data
    ELSE IF p.k = HXAF
        THEN LE32(p.k) \o LE32(p.a) \o LE32(p.b) \o Zeros(8) \o p.data
    ELSE IF p.k = HXFI
        THEN LE32(p.k) \o LE32(p.a) \o Zeros(12) \o p.data
    ELSE LE32(p.k) \o p.data

RECURSIVE Flatten(_)
Flatten(ps) == IF ps = << >> THEN << >> ELSE Encode(Head(ps)) \o Flatten(Tail(ps))

SeqsUpTo(S, n) == UNION { [1..k -> S] : k \in 0..n }

(***************************************************************************)
(* State.                                                                  *)
(***************************************************************************)
VARIABLES
    file,                   \* the bytes of the input file
    skip_audio,             \* option -n
    input,                  \* the packets the file was built from (history)
    seekable,               \* fseek works on in_file (a regular file, not a pipe)
    in_file_open,           \* in_file is open: FALSE after fclose(in_file)
    pc,                     \* "infer", "rewind", "extract", "trailer", "done", "fatal"
    err,                    \* the diagnostic of a fatal exit
    pos,                    \* file position of in_file (wide)
    eof,                    \* the stream's end-of-file indicator, feof(in_file)
    hxfi_detected,
    video_w, video_h,
    dims_set,               \* video_w and video_h have been assigned
    video_avg_frame_rate, audio_avg_sample_rate,
    video_ts_initial, audio_ts_initial,
    video_ts_prev, audio_ts_prev,
    video_packets_count, audio_packets_count,
    streams,                \* the streams added to format_ctx, in order
    v_stream, a_stream,     \* index in streams, NullStream when not created
    time_base,              \* the streams' time bases after the header is written
    header_written, trailer_written,
    packet_buffer,          \* the allocated bytes; << >> is the NULL pointer
    packet_buffer_length,
    packet_buffer_offset,
    out,                    \* the packets handed to av_interleaved_write_frame
    ilog, xlog              \* packet headers read by each pass (history)

invars == << file, skip_audio, input, seekable, in_file_open >>
infvars == << video_w, video_h, dims_set, video_avg_frame_rate,
              audio_avg_sample_rate, video_ts_initial, audio_ts_initial,
              video_ts_prev, audio_ts_prev, video_packets_count,
              audio_packets_count >>
muxvars == << streams, v_stream, a_stream, time_base, header_written,
              trailer_written >>
bufvars == << packet_buffer, packet_buffer_length, packet_buffer_offset >>
vars == << file, skip_audio, input, seekable, in_file_open, pc, err, pos, eof, hxfi_detected,
           video_w, video_h, dims_set, video_avg_frame_rate,
           audio_avg_sample_rate, video_ts_initial, audio_ts_initial,
           video_ts_prev, audio_ts_prev, video_packets_count,
           audio_packets_count, streams, v_stream, a_stream, time_base,
           header_written, trailer_written, packet_buffer,
           packet_buffer_length, packet_buffer_offset, out, ilog, xlog >>

NullStream == 0 - 1
NoTimeBase == [v |-> << 0, 1 >>, a |-> << 0, 1 >>]

(***************************************************************************)
(* The C library's stream in_file.                                         *)
(***************************************************************************)
\* bytes between the file position and the end of the file
Avail(p) == IF p.w > 0 \/ p.r >= Len(file) THEN 0 ELSE Len(file) - p.r

\* the 32-bit little-endian field at offset o (0-based); the files of the
\* specifications below keep the top byte of every field read through this
\* operator below 128, so the value is below 2^31
U32At(o) == file[o + 1] + 256 * file[o + 2] + 65536 * file[o + 3]
            + 16777216 * file[o + 4]

\* (int) of the 32-bit little-endian field at offset o: values from 2^31 on
\* come out negative
IntAt(o) == file[o + 1] + 256 * file[o + 2] + 65536 * file[o + 3]
            + 16777216 * (IF file[o + 4] >= 128 THEN file[o + 4] - 256 ELSE file[o + 4])

U32Sub4Clamped(length) == IF length >= 4 THEN Wide(0, length - 4) ELSE Wide(0, 0)

\* hx_frame.data.hxaf.length - 4, in unsigned 32-bit arithmetic
U32Sub4(length) == IF length >= 4 THEN Wide(0, length - 4) ELSE Wide(1, length - 4)

\* exit(1) after a diagnostic
Fatal(e) ==
    /\ pc' = "fatal"
    /\ err' = e
    /\ UNCHANGED << invars, pos, eof, hxfi_detected, infvars, muxvars, bufvars,
                    out, ilog, xlog >>

\* while ((!feof(in_file)) && (!hxfi_detected))
LoopCond(e, h) == (~e) /\ (~h)

(***************************************************************************)
(* First pass: inference of frame rate, sample rate and video size.        *)
(***************************************************************************)
\* 1000.0f / (double) elapsed
FrameRateOf(elapsed) == DblDiv(DblOfInt(1000), DblOfInt(elapsed))

\* (hx_frame.data.hxaf.length - 4) / (double) elapsed
SampleRateOf(samples, elapsed) == DblDiv(DblOfWide(samples), DblOfInt(elapsed))

DblAvgDividedByN(q, n, x) == DblDiv(DblAdd(DblMulInt(q, n), x), DblOfInt(n))

\* (q * (double) n + x) / ((double) n + 1)
DblAvg(q, n, x) == DblDiv(DblAdd(DblMulInt(q, n), x), DblOfInt(n + 1))

TsState(i, p, r, c) == [initial |-> i, prev |-> p, rate |-> r, count |-> c]

VideoTsUpdateNoRebase(s, raw) ==
    IF s.initial = 0 - 1
    THEN TsState(0, raw, s.rate, s.count)
    ELSE LET timestamp == raw - s.initial
         IN  IF timestamp > s.prev
             THEN TsState(s.initial, timestamp, FrameRateOf(timestamp - s.prev),
                          s.count + 1)
             ELSE TsState(s.initial, timestamp, s.rate, s.count)

\* case HXVF of the first pass: the running video frame rate
VideoTsUpdateCountsEveryPacket(s, raw) ==
    IF s.initial = 0 - 1
    THEN TsState(raw, raw, s.rate, s.count)
    ELSE TsState(s.initial, raw - s.initial, s.rate, s.count + 1)

VideoTsUpdate(s, raw) ==
    IF s.initial = 0 - 1
    THEN TsState(raw, raw, s.rate, s.count)
    ELSE LET timestamp == raw - s.initial
         IN  IF timestamp > s.prev
             THEN LET elapsed == timestamp - s.prev
                  IN  TsState(s.initial, timestamp,
                              IF s.count # 0
                              THEN DblAvg(s.rate, s.count, FrameRateOf(elapsed))
                              ELSE FrameRateOf(elapsed),
                              s.count + 1)
             ELSE TsState(s.initial, timestamp, s.rate, s.count)

AudioTsUpdateRestartsReference(s, raw, length) ==
    IF s.initial = 0 - 1 \/ raw - s.initial <= s.prev
    THEN TsState(raw, raw, s.rate, s.count)
    ELSE TsState(s.initial, raw - s.initial,
                 IF s.count # 0
                 THEN DblAvg(s.rate, s.count,
                             SampleRateOf(U32Sub4(length), raw - s.initial - s.prev))
                 ELSE SampleRateOf(U32Sub4(length), raw - s.initial - s.prev),
                 s.count + 1)

\* case HXAF of the first pass: the running audio sample rate
AudioTsUpdate(s, raw, length) ==
    IF s.initial = 0 - 1
    THEN TsState(raw, raw, s.rate, s.count)
    ELSE LET timestamp == raw - s.initial
             samples == U32Sub4(length)
         IN  IF timestamp > s.prev
             THEN LET elapsed == timestamp - s.prev
                  IN  TsState(s.initial, timestamp,
                              IF s.count # 0
                              THEN DblAvg(s.rate, s.count,
                                          SampleRateOf(samples, elapsed))
                              ELSE SampleRateOf(samples, elapsed),
                              s.count + 1)
             ELSE TsState(s.initial, timestamp, s.rate, s.count)

LogRec(o, t, a, b) == [off |-> o, tag |-> t, a |-> a, b |-> b]

InferHXVS ==
    IF Avail(WAdd(pos, TagSize)) < HXVSFrameSize
    THEN Fatal("premature_eof")
    ELSE /\ video_w' = IntAt(pos.r + 4)
         /\ video_h' = IntAt(pos.r + 8)
         /\ dims_set' = TRUE
         /\ pos' = WAdd(pos, TagSize + HXVSFrameSize)
         /\ ilog' = Append(ilog, LogRec(pos.r, HXVS, IntAt(pos.r + 4), IntAt(pos.r + 8)))
         /\ pc' = IF LoopCond(eof, hxfi_detected) THEN "infer" ELSE "rewind"
         /\ UNCHANGED << invars, err, eof, hxfi_detected, video_avg_frame_rate,
                         audio_avg_sample_rate, video_ts_initial, audio_ts_initial,
                         video_ts_prev, audio_ts_prev, video_packets_count,
                         audio_packets_count, muxvars, bufvars, out, xlog >>

InferHXVF ==
    IF Avail(WAdd(pos, TagSize)) < HXVFFrameSize
    THEN Fatal("premature_eof")
    ELSE IF ~seekable
    \* fseek(in_file, length, SEEK_CUR) < 0
    THEN Fatal("premature_eof")
    ELSE LET length == U32At(pos.r + 4)
             raw == U32At(pos.r + 8)
             s == VideoTsUpdate(TsState(video_ts_initial, video_ts_prev,
                                        video_avg_frame_rate, video_packets_count), raw)
         IN  /\ video_ts_initial' = s.initial
             /\ video_ts_prev' = s.prev
             /\ video_avg_frame_rate' = s.rate
             /\ video_packets_count' = s.count
             \* fseek(in_file, length, SEEK_CUR): succeeds beyond the end too
             /\ pos' = WAdd(pos, TagSize + HXVFFrameSize + length)
             /\ eof' = FALSE
             /\ ilog' = Append(ilog, LogRec(pos.r, HXVF, length, raw))
             /\ pc' = IF LoopCond(FALSE, hxfi_detected) THEN "infer" ELSE "rewind"
             /\ UNCHANGED << invars, err, hxfi_detected, video_w, video_h, dims_set,
                             audio_avg_sample_rate, audio_ts_initial, audio_ts_prev,
                             audio_packets_count, muxvars, bufvars, out, xlog >>

InferHXAF ==
    IF Avail(WAdd(pos, TagSize)) < HXAFFrameSize
    THEN Fatal("premature_eof")
    ELSE IF ~seekable
    \* fseek(in_file, length - 4, SEEK_CUR) < 0
    THEN Fatal("premature_eof")
    ELSE LET length == U32At(pos.r + 4)
             raw == U32At(pos.r + 8)
             s == AudioTsUpdate(TsState(audio_ts_initial, audio_ts_prev,
                                        audio_avg_sample_rate, audio_packets_count),
                                raw, length)
         IN  /\ audio_ts_initial' = s.initial
             /\ audio_ts_prev' = s.prev
             /\ audio_avg_sample_rate' = s.rate
             /\ audio_packets_count' = s.count
             \* fseek(in_file, length - 4, SEEK_CUR)
             /\ pos' = WPlus(WAdd(pos, TagSize + HXAFFrameSize), U32Sub4(length))
             /\ eof' = FALSE
             /\ ilog' = Append(ilog, LogRec(pos.r, HXAF, length, raw))
             /\ pc' = IF LoopCond(FALSE, hxfi_detected) THEN "infer" ELSE "rewind"
             /\ UNCHANGED << invars, err, hxfi_detected, video_w, video_h, dims_set,
                             video_avg_frame_rate, video_ts_initial, video_ts_prev,
                             video_packets_count, muxvars, bufvars, out, xlog >>

InferHXFI ==
    /\ hxfi_detected' = TRUE
    /\ pos' = WAdd(pos, TagSize)
    /\ ilog' = Append(ilog, LogRec(pos.r, HXFI, 0, 0))
    /\ pc' = IF LoopCond(eof, TRUE) THEN "infer" ELSE "rewind"
    /\ UNCHANGED << invars, err, eof, infvars, muxvars, bufvars, out, xlog >>

InferDefaultConsumesHeader(tag) ==
    /\ pos' = WAdd(pos, TagSize + HXVSFrameSize)
    /\ ilog' = Append(ilog, LogRec(pos.r, tag, 0, 0))
    /\ pc' = IF LoopCond(eof, hxfi_detected) THEN "infer" ELSE "rewind"
    /\ UNCHANGED << invars, err, eof, hxfi_detected, infvars, muxvars, bufvars,
                    out, xlog >>

\* default: the tag is logged as unknown, nothing more is read
InferDefault(tag) ==
    /\ pos' = WAdd(pos, TagSize)
    /\ ilog' = Append(ilog, LogRec(pos.r, tag, 0, 0))
    /\ pc' = IF LoopCond(eof, hxfi_detected) THEN "infer" ELSE "rewind"
    /\ UNCHANGED << invars, err, eof, hxfi_detected, infvars, muxvars, bufvars,
                    out, xlog >>

InferencePacketEofEndsPass ==
    /\ pc = "infer"
    /\ IF Avail(pos) < TagSize
       THEN /\ pc' = "rewind"
            /\ eof' = TRUE
            /\ UNCHANGED << invars, err, pos, hxfi_detected, infvars, muxvars,
                            bufvars, out, ilog, xlog >>
       ELSE LET tag == U32At(pos.r)
            IN  CASE tag = HXVS -> InferHXVS
                  [] tag = HXVF -> InferHXVF
                  [] tag = HXAF -> InferHXAF
                  [] tag = HXFI -> InferHXFI
                  [] OTHER -> InferDefault(tag)

\* one iteration of the first do-while loop
InferencePacket ==
    /\ pc = "infer"
    /\ IF Avail(pos) < TagSize
       THEN Fatal("premature_eof")
       ELSE LET tag == U32At(pos.r)
            IN  CASE tag = HXVS -> InferHXVS
                  [] tag = HXVF -> InferHXVF
                  [] tag = HXAF -> InferHXAF
                  [] tag = HXFI -> InferHXFI
                  [] OTHER -> InferDefault(tag)

(***************************************************************************)
(* Between the passes: rewind, the no-video check, the output streams and  *)
(* the header.  The muxer may fail at any call of the setup, and the run   *)
(* then exits before the header; when it succeeds it chooses the time      *)
(* bases.                                                                  *)
(***************************************************************************)
TimeBases == { [v |-> << 1, 1000 >>, a |-> << 1, 1000 >>],
               [v |-> << 1, 90000 >>, a |-> << 1, 8000 >>] }

Stream(c, w, h, r, n) == [codec |-> c, width |-> w, height |-> h, rate |-> r,
                          nb_frames |-> n]

NoVideoOnlyNegative(rate) == FALSE
\* if (video_avg_frame_rate <= 0) exit(1)
NoVideo(rate) == ~DblPositive(rate)

AudioStreamIfRate(skip, rate) == DblPositive(rate)
\* if (!skip_audio) ... if (audio_avg_sample_rate <= 0) warning else new stream
AudioStreamWanted(skip, rate) == (~skip) /\ DblPositive(rate)

\* (int) round(video_avg_frame_rate)
FrameRate(rate) == IntOfRound(rate)

\* (int) round(audio_avg_sample_rate * 1000.0f)
SampleRate(rate) == IntOfRound(DblMulInt(rate, 1000))

\* a field of a stream that main has not set yet
Unset == 0 - 3

\* the stream as avformat_new_stream returns it, before
\* avcodec_parameters_from_context and main's assignments fill it
NewStream(c) == Stream(c, Unset, Unset, Unset, Unset)

\* the calls of the setup that can fail, in the order main makes them:
\* for the video stream avformat_new_stream, avcodec_alloc_context3,
\* avcodec_open2, avcodec_parameters_from_context
VideoSetup == {"v_new_stream", "v_alloc_context", "v_open", "v_params"}
\* the same four for the audio stream, made when an audio stream is wanted
AudioSetup == {"a_new_stream", "a_alloc_context", "a_open", "a_params"}
\* avio_open and avformat_write_header
OutputSetup == {"avio_open", "write_header"}

\* what setting up the output can come to: "ok", or the call that fails
MuxSetup(want) ==
    {"ok"} \cup VideoSetup \cup (IF want THEN AudioSetup ELSE {}) \cup OutputSetup

\* how the run ends when a call of the setup fails: exit(1) after a
\* diagnostic where main tests the result; the result of
\* avcodec_alloc_context3 is not tested and the next statement writes
\* through it, which kills the process when it is NULL
SetupErr(call) ==
    CASE call \in {"v_new_stream", "a_new_stream"} -> "stream_alloc"
      [] call \in {"v_alloc_context", "a_alloc_context"} -> "segv"
      [] call \in {"v_open", "a_open"} -> "codec_open"
      [] call = "v_params" -> "video_params"
      [] call = "a_params" -> "audio_params"
      [] call = "avio_open" -> "output_open"
      [] call = "write_header" -> "write_header"

SetupErrors == { SetupErr(call) : call \in VideoSetup \cup AudioSetup \cup OutputSetup }

\* the streams of format_ctx when the setup has come to mux: vs and as are
\* the video and the audio stream with their parameters set
StreamsAt(mux, want, vs, as) ==
    CASE mux = "v_new_stream" -> << >>
      [] mux \in VideoSetup \ {"v_new_stream"} -> << NewStream("h264") >>
      [] mux = "a_new_stream" -> << vs >>
      [] mux \in AudioSetup \ {"a_new_stream"} -> << vs, NewStream("pcm_alaw") >>
      [] OTHER -> << vs >> \o (IF want THEN << as >> ELSE << >>)

SeekSetIgnored(offset) == [ok |-> TRUE, pos |-> pos]

\* fseek(in_file, offset, SEEK_SET)
SeekSet(offset) ==
    IF seekable THEN [ok |-> TRUE, pos |-> Wide(0, offset)] ELSE [ok |-> FALSE, pos |-> pos]

InferenceEnd ==
    /\ pc = "rewind"
    /\ IF ~SeekSet(0).ok
       THEN Fatal("seek")
       ELSE IF NoVideo(video_avg_frame_rate)
       THEN /\ pc' = "fatal"
            /\ err' = "no_video"
            /\ pos' = SeekSet(0).pos
            /\ eof' = FALSE
            /\ UNCHANGED << invars, hxfi_detected, infvars, muxvars, bufvars, out,
                            ilog, xlog >>
       ELSE LET want == AudioStreamWanted(skip_audio, audio_avg_sample_rate)
            IN  \E mux \in MuxSetup(want) :
                \E fr \in FrameRate(video_avg_frame_rate) :
                \E sr \in SampleRate(audio_avg_sample_rate) :
                   /\ pos' = SeekSet(0).pos
                   /\ eof' = FALSE
                   /\ streams' =
                         StreamsAt(mux, want,
                                   Stream("h264", IF dims_set THEN video_w ELSE Indet,
                                          IF dims_set THEN video_h ELSE Indet,
                                          fr, video_packets_count),
                                   \* main never assigns a_stream->nb_frames
                                   Stream("pcm_alaw", 0, 0, sr, Unset))
                   /\ v_stream' = IF mux = "v_new_stream" THEN NullStream ELSE 0
                   /\ a_stream' = IF want /\ mux \notin VideoSetup \cup {"a_new_stream"}
                                  THEN 1 ELSE NullStream
                   /\ IF mux = "ok"
                      THEN /\ pc' = "extract"
                           /\ header_written' = TRUE
                           /\ time_base' \in TimeBases
                           /\ packet_buffer' = << >>
                           /\ packet_buffer_length' = 0
                           /\ packet_buffer_offset' = 0
                           /\ hxfi_detected' = FALSE
                           /\ err' = err
                      ELSE /\ pc' = "fatal"
                           /\ err' = SetupErr(mux)
                           /\ UNCHANGED << header_written, time_base, bufvars,
                                           hxfi_detected >>
                   /\ UNCHANGED << invars, infvars, trailer_written, out, ilog, xlog >>

(***************************************************************************)
(* ReadToBuffer: the growable buffer.                                      *)
(***************************************************************************)
Malloc(n) == [i \in 1..n |-> Indet]
ReallocLosesData(buf, n) == [i \in 1..n |-> Indet]
Realloc(buf, n) == [i \in 1..n |-> IF i <= Len(buf) THEN buf[i] ELSE Indet]

\* a released allocation: the pointer is not NULL and no byte may be read
Released == << Crash >>

\* the outcome of a call: exits says that it ended the run with exit(1)
ReadResult(b, s, r, p, e, x) ==
    [buf |-> b, size |-> s, ret |-> r, pos |-> p, eof |-> e, exits |-> x]

\* alloc_ok: malloc and realloc return memory (NULL otherwise)
ReadToBuffer(p, dest, dest_offset, length, dest_size, alloc_ok) ==
    IF length = 0
    THEN ReadResult(dest, dest_size, 0, p, FALSE, FALSE)
    ELSE LET need == length + dest_offset
             grow == Len(dest) # 0 /\ dest_size < need
             b1 == IF grow
                   THEN (IF dest_offset # 0 THEN Realloc(dest, need) ELSE << >>)
                   ELSE dest
             b2 == IF Len(b1) = 0 THEN Malloc(need) ELSE b1
             n == Min(length, Avail(p))
             b3 == [i \in 1..Len(b2) |->
                       IF i > dest_offset /\ i <= dest_offset + n
                       THEN file[p.r + (i - dest_offset)] ELSE b2[i]]
         IN  IF (~alloc_ok) /\ grow /\ dest_offset # 0
             \* Cannot re-allocate memory
             THEN ReadResult(<< >>, dest_size, 0, p, FALSE, TRUE)
             ELSE IF (~alloc_ok) /\ Len(b1) = 0
             \* Cannot allocate memory
             THEN ReadResult(<< >>, dest_size, 0, p, FALSE, TRUE)
             ELSE ReadResult(b3, need, n, WAdd(p, n), n < length, FALSE)

\* what the read of nal_header->unit_type at packet_buffer + offset can give:
\* a byte's low 5 bits, anything for an indeterminate byte, anything or a
\* crash outside the allocation (or through the NULL pointer)
NalOutcomes(buf, offset) ==
    IF offset + 5 <= Len(buf)
    THEN (IF buf[offset + 5] = Indet THEN {7, 1} ELSE {buf[offset + 5] % 32})
    ELSE {7, 1, Crash}

IsParameterSetOnlySPS(unit_type) == unit_type = 7
IsParameterSet(unit_type) == unit_type = 7 \/ unit_type = 8

\* the size bytes at packet.data as the muxer copies them
PacketBytes(buf, size) == [i \in 1..size |-> IF i <= Len(buf) THEN buf[i] ELSE Indet]

\* (int) round((double) rel / (1000.0f * av_q2d(time_base)))
\* the conversion of a value beyond the range of int is undefined; below
\* INT_MIN both x86-64 and a saturating conversion give INT_MIN
Pts(rel, tb) ==
    Only({ IF rel >= 0 THEN r
           ELSE IF Cardinality(r) = 1 THEN { 0 - v : v \in r }
           ELSE {IntMin} :
           r \in {IntOfRound(DblDiv(DblOfInt(Abs(rel)),
                                    DblMulInt(DblDiv(DblOfInt(tb[1]), DblOfInt(tb[2])),
                                              1000)))} })

OutPacket(st, data, pts, src) == [stream |-> st, data |-> data, pts |-> pts, src |-> src]

WriteFrameFirst(written, packet) == << packet >> \o written
\* av_interleaved_write_frame(format_ctx, &packet) returning 0: handed over
\* at once, in call order; on a negative return (write_ok false in the
\* actions) the run exits and the packet is not handed over
WriteFrame(written, packet) == Append(written, packet)

(***************************************************************************)
(* Second pass: extraction.                                                *)
(***************************************************************************)
ExtractHXVS ==
    IF ~seekable
    THEN Fatal("seek")
    ELSE /\ pos' = WAdd(pos, TagSize + HXVSFrameSize)
         /\ eof' = FALSE
         /\ xlog' = Append(xlog, LogRec(pos.r, HXVS, 0, 0))
         /\ pc' = IF LoopCond(FALSE, hxfi_detected) THEN "extract" ELSE "trailer"
         /\ UNCHANGED << invars, err, hxfi_detected, infvars, muxvars, bufvars, out,
                         ilog >>

ExtractHXVF ==
    IF Avail(WAdd(pos, TagSize)) < HXVFFrameSize
    THEN Fatal("premature_eof")
    ELSE LET length == U32At(pos.r + 4)
             raw == U32At(pos.r + 8)
         IN  \E alloc_ok \in BOOLEAN : \E write_ok \in BOOLEAN :
             LET rd == ReadToBuffer(WAdd(pos, TagSize + HXVFFrameSize), packet_buffer,
                                    packet_buffer_offset, length, packet_buffer_length,
                                    alloc_ok)
             IN  IF rd.exits
             THEN Fatal("oom")
             ELSE IF rd.ret < length
             THEN Fatal("premature_eof")
             ELSE \E unit_type \in NalOutcomes(rd.buf, packet_buffer_offset) :
                    IF unit_type = Crash
                    THEN Fatal("segv")
                    ELSE IF (~IsParameterSet(unit_type)) /\ ~write_ok
                    THEN Fatal("write_frame")
                    ELSE /\ packet_buffer' = rd.buf
                         /\ packet_buffer_length' = rd.size
                         /\ pos' = rd.pos
                         /\ eof' = rd.eof
                         /\ xlog' = Append(xlog, LogRec(pos.r, HXVF, length, raw))
                         /\ pc' = IF LoopCond(rd.eof, hxfi_detected)
                                  THEN "extract" ELSE "trailer"
                         /\ IF IsParameterSet(unit_type)
                            THEN /\ packet_buffer_offset' = packet_buffer_offset + rd.ret
                                 /\ out' = out
                            ELSE /\ packet_buffer_offset' = 0
                                 /\ \E pts \in Pts(raw - video_ts_initial, time_base.v) :
                                       out' = WriteFrame(out,
                                          OutPacket(v_stream,
                                                    PacketBytes(rd.buf, rd.ret + packet_buffer_offset),
                                                    pts, pos.r))
                         /\ UNCHANGED << invars, err, hxfi_detected, infvars, muxvars, ilog >>

ExtractHXAF ==
    IF Avail(WAdd(pos, TagSize)) < HXAFFrameSize
    THEN Fatal("premature_eof")
    ELSE LET length == U32At(pos.r + 4)
             raw == U32At(pos.r + 8)
             samples == U32Sub4(length)
         IN  IF a_stream # NullStream
             THEN IF samples.w > 0
                  \* a read of 2^32 - k bytes: the allocation fails or the read is short
                  THEN \E e \in {"oom", "premature_eof"} : Fatal(e)
                  ELSE \E alloc_ok \in BOOLEAN : \E write_ok \in BOOLEAN :
                  LET rd == ReadToBuffer(WAdd(pos, TagSize + HXAFFrameSize),
                                         packet_buffer, 0, samples.r,
                                         packet_buffer_length, alloc_ok)
                  IN  IF rd.exits
                  THEN Fatal("oom")
                  ELSE IF rd.ret < samples.r
                  THEN Fatal("premature_eof")
                  ELSE IF ~write_ok
                  THEN Fatal("write_frame")
                  ELSE /\ packet_buffer' = rd.buf
                       /\ packet_buffer_length' = rd.size
                       /\ pos' = rd.pos
                       /\ eof' = rd.eof
                       /\ xlog' = Append(xlog, LogRec(pos.r, HXAF, length, raw))
                       /\ pc' = IF LoopCond(rd.eof, hxfi_detected)
                                THEN "extract" ELSE "trailer"
                       /\ \E pts \in Pts(raw - audio_ts_initial, time_base.a) :
                             out' = WriteFrame(out,
                                OutPacket(a_stream, PacketBytes(rd.buf, rd.ret),
                                          pts, pos.r))
                       /\ UNCHANGED << invars, err, hxfi_detected, infvars, muxvars,
                                       packet_buffer_offset, ilog >>
             ELSE IF ~seekable
             THEN Fatal("seek")
             ELSE /\ pos' = WPlus(WAdd(pos, TagSize + HXAFFrameSize), samples)
                  /\ eof' = FALSE
                  /\ xlog' = Append(xlog, LogRec(pos.r, HXAF, length, raw))
                  /\ pc' = IF LoopCond(FALSE, hxfi_detected) THEN "extract" ELSE "trailer"
                  /\ UNCHANGED << invars, err, hxfi_detected, infvars, muxvars, bufvars,
                                  out, ilog >>

ExtractHXFI ==
    /\ hxfi_detected' = TRUE
    /\ pos' = WAdd(pos, TagSize)
    /\ xlog' = Append(xlog, LogRec(pos.r, HXFI, 0, 0))
    /\ pc' = IF LoopCond(eof, TRUE) THEN "extract" ELSE "trailer"
    /\ UNCHANGED << invars, err, eof, infvars, muxvars, bufvars, out, ilog >>

ExtractDefaultRereadsTag(tag) ==
    /\ pc' = pc
    /\ UNCHANGED << invars, err, pos, eof, hxfi_detected, infvars, muxvars, bufvars,
                    out, ilog, xlog >>

ExtractDefault(tag) ==
    /\ pos' = WAdd(pos, TagSize)
    /\ xlog' = Append(xlog, LogRec(pos.r, tag, 0, 0))
    /\ pc' = IF LoopCond(eof, hxfi_detected) THEN "extract" ELSE "trailer"
    /\ UNCHANGED << invars, err, eof, hxfi_detected, infvars, muxvars, bufvars,
                    out, ilog >>

\* one iteration of the main extraction loop
ExtractPacket ==
    /\ pc = "extract"
    /\ IF Avail(pos) < TagSize
       THEN Fatal("premature_eof")
       ELSE LET tag == U32At(pos.r)
            IN  CASE tag = HXVS -> ExtractHXVS
                  [] tag = HXVF -> ExtractHXVF
                  [] tag = HXAF -> ExtractHXAF
                  [] tag = HXFI -> ExtractHXFI
                  [] OTHER -> ExtractDefault(tag)

\* free(p) for a pointer that is not NULL
Free(buf) == IF Len(buf) = 0 THEN buf ELSE Released

\* fclose(in_file), av_write_trailer, if (packet_buffer) free(packet_buffer),
\* return 0
ExtractEnd ==
    /\ pc = "trailer"
    /\ in_file_open' = FALSE
    /\ trailer_written' = TRUE
    /\ packet_buffer' = Free(packet_buffer)
    /\ pc' = "done"
    /\ UNCHANGED << file, skip_audio, input, seekable, err, pos, eof, hxfi_detected,
                    infvars, streams, v_stream, a_stream, time_base, header_written,
                    packet_buffer_length, packet_buffer_offset, out, ilog, xlog >>

Next == InferencePacket \/ InferenceEnd \/ ExtractPacket \/ ExtractEnd

(***************************************************************************)
(* Input files.  A file is the bytes of a sequence of packets, optionally  *)
(* followed by an end-of-stream packet, with cut bytes removed at the end. *)
(***************************************************************************)
\* video payloads: start code, NAL header byte (0x67 SPS, 0x68 PPS, 0x65 IDR
\* slice, 0x41 non-IDR slice), payload bytes
SPS == << 0, 0, 0, 1, 103, 66 >>
PPS == << 0, 0, 0, 1, 104 >>
IDR == << 0, 0, 0, 1, 101, 136, 132 >>
PSL == << 0, 0, 0, 1, 65 >>
\* audio samples
A2 == << 213, 85 >>
A8 == << 84, 85, 86, 87, 212, 213, 214, 215 >>

VF(payload, ts) == Pkt(HXVF, Len(payload), ts, payload)
AF(samples, ts) == Pkt(HXAF, Len(samples) + 4, ts, samples)
VS(w, h) == Pkt(HXVS, w, h, << >>)
VT(w, h) == Pkt(HXVT, w, h, << >>)
FI == Pkt(HXFI, 0, 0, << >>)
\* four bytes that are no tag of the format (0x12345678)
Junk == Pkt(305419896, 0, 0, << >>)

Truncate(bytes, cut) == SubSeq(bytes, 1, IF cut >= Len(bytes) THEN 0 ELSE Len(bytes) - cut)

Build(body, fi, cut) == Truncate(Flatten(body \o IF fi THEN << FI >> ELSE << >>), cut)

InitFile(Bodies, Fis, Cuts, Skips, Seeks) ==
    /\ \E body \in Bodies, fi \in Fis, cut \in Cuts :
          /\ input = [body |-> body, fi |-> fi, cut |-> cut]
          /\ file = Build(body, fi, cut)
    /\ skip_audio \in Skips
    /\ seekable \in Seeks
    /\ in_file_open = TRUE
    /\ pc = "infer"
    /\ err = "none"
    /\ pos = Wide(0, 0)
    /\ eof = FALSE
    /\ hxfi_detected = FALSE
    /\ video_w = 0
    /\ video_h = 0
    /\ dims_set = FALSE
    /\ video_avg_frame_rate = DblZero
    /\ audio_avg_sample_rate = DblZero
    /\ video_ts_initial = 0 - 1
    /\ audio_ts_initial = 0 - 1
    /\ video_ts_prev = 0 - 1
    /\ audio_ts_prev = 0 - 1
    /\ video_packets_count = 0
    /\ audio_packets_count = 0
    /\ streams = << >>
    /\ v_stream = NullStream
    /\ a_stream = NullStream
    /\ time_base = NoTimeBase
    /\ header_written = FALSE
    /\ trailer_written = FALSE
    /\ packet_buffer = << >>
    /\ packet_buffer_length = 0
    /\ packet_buffer_offset = 0
    /\ out = << >>
    /\ ilog = << >>
    /\ xlog = << >>

\* a regular file
InitWith(Bodies, Fis, Cuts, Skips) == InitFile(Bodies, Fis, Cuts, Skips, {TRUE})

\* any packets, intact or truncated, with or without the end-of-stream packet
Alphabet == { VS(1920, 1080), VT(640, 480), VF(SPS, 0), VF(PSL, 40), VF(IDR, 80),
              AF(A2, 0), AF(A2, 40), Junk }
Cuts == {0, 1, 8, 18}
Init == InitWith(SeqsUpTo(Alphabet, MaxPackets), BOOLEAN, Cuts, BOOLEAN)
Spec == Init /\ [][Next]_vars

\* video packets only, at a constant interval from any first timestamp
VideoPayloads == {SPS, PPS, IDR, PSL}
Starts == {0, 20, 1000}
Intervals == {40, 83}
InitVideo == InitWith(UNION { { [i \in 1..Len(ks) |-> VF(ks[i], t0 + d * (i - 1))] :
                                  t0 \in Starts, d \in Intervals } :
                              ks \in SeqsUpTo(VideoPayloads, MaxVideo) },
                      {TRUE}, {0}, {FALSE})
SpecVideo == InitVideo /\ [][Next]_vars

\* well-formed video and audio packets interleaved, 40 ms apart
AVKinds == { VF(SPS, 0), VF(IDR, 0), VF(PSL, 0), AF(A2, 0), AF(A8, 0) }
InitAV == InitWith({ [i \in 1..Len(ks) |-> [ks[i] EXCEPT !.b = 40 * (i - 1)]] :
                       ks \in SeqsUpTo(AVKinds, MaxAV) },
                   {TRUE}, {0}, BOOLEAN)
SpecAV == InitAV /\ [][Next]_vars

\* well-formed packets with any order of timestamps
TsAlphabet == { VF(IDR, 0), VF(IDR, 40), VF(IDR, 80), AF(A2, 0), AF(A2, 40), AF(A2, 80) }
InitTs == InitWith(SeqsUpTo(TsAlphabet, MaxTs), {TRUE}, {0}, BOOLEAN)
SpecTs == InitTs /\ [][Next]_vars

(***************************************************************************)
(* What the file holds at the packets a pass has read, and the coalescing  *)
(* rule of the specification applied to them.                              *)
(***************************************************************************)
Extracting == pc \in {"extract", "trailer", "done"}

VideoPayload(r) == SubSeq(file, r.off + TagSize + HXVFFrameSize + 1,
                          r.off + TagSize + HXVFFrameSize + r.a)
AudioSamples(r) == SubSeq(file, r.off + TagSize + HXAFFrameSize + 1,
                          r.off + TagSize + HXAFFrameSize + r.a - 4)
\* low 5 bits of the byte after the 4-byte start code
UnitTypeOf(r) == VideoPayload(r)[5] % 32
HasUnitType(r) == r.tag = HXVF /\ r.a >= 5
IsPS(r) == HasUnitType(r) /\ UnitTypeOf(r) \in {7, 8}

OfTag(log, t) == SelectSeq(log, LAMBDA r : r.tag = t)
\* raw timestamp of the first packet of a type among the packets read
FirstRaw(log, t) == OfTag(log, t)[1].b

RECURSIVE Coalesce(_, _, _, _)
Coalesce(log, first, pending, acc) ==
    IF log = << >> THEN [emitted |-> acc, pending |-> pending]
    ELSE LET r == Head(log)
         IN  IF r.tag # HXVF THEN Coalesce(Tail(log), first, pending, acc)
             ELSE IF IsPS(r)
             THEN Coalesce(Tail(log), first, pending \o VideoPayload(r), acc)
             ELSE Coalesce(Tail(log), first, << >>,
                           Append(acc, [data |-> pending \o VideoPayload(r),
                                        src |-> r.off, rel |-> r.b - first]))

Expected(log) ==
    IF OfTag(log, HXVF) = << >> THEN [emitted |-> << >>, pending |-> << >>]
    ELSE Coalesce(log, FirstRaw(log, HXVF), << >>, << >>)

VideoOut == SelectSeq(out, LAMBDA o : o.stream = v_stream)
AudioOut == SelectSeq(out, LAMBDA o : o.stream # v_stream)

\* pts is the tick nearest to rel milliseconds in the time base tb
NearestTick(pts, rel, tb) ==
    2 * Abs(pts * 1000 * tb[1] - rel * tb[2]) <= 1000 * tb[1]

SameVideo(written, expected) ==
    /\ Len(written) = Len(expected)
    /\ \A k \in 1..Len(written) :
          /\ written[k].data = expected[k].data
          /\ written[k].src = expected[k].src
          /\ NearestTick(written[k].pts, expected[k].rel, time_base.v)

(***************************************************************************)
(* C1.  Over consecutive video-frame packets, a payload of NAL unit type 7 *)
(* or 8 emits nothing and is accumulated; any other payload emits exactly  *)
(* one packet, the accumulated parameter sets in read order followed by    *)
(* the payload, timestamped with its own relative timestamp, and leaves    *)
(* the accumulation empty.                                                 *)
(***************************************************************************)
C1_Coalescing ==
    Extracting =>
        /\ SameVideo(VideoOut, Expected(xlog).emitted)
        /\ AudioOut = << >>
        /\ packet_buffer_offset = Len(Expected(xlog).pending)
        /\ pc # "done" =>
              PacketBytes(packet_buffer, packet_buffer_offset) = Expected(xlog).pending

\* [parameter set, parameter set, access unit] has given one packet, the three
\* payloads concatenated, at the access unit's relative timestamp
C1_Witness ==
    /\ pc = "done"
    /\ Len(input.body) = 3
    /\ Len(out) = 1
    /\ out[1].data = SPS \o PPS \o IDR
    /\ time_base.v = << 1, 1000 >>
    /\ out[1].pts = 80

(***************************************************************************)
(* C2.  While parameter-set bytes are pending (accumulation offset > 0) no *)
(* other packet's processing overwrites, frees or replaces them: the first *)
(* packet_buffer_offset bytes of the buffer are the pending payloads, also *)
(* after an audio-frame packet was read in between.                        *)
(***************************************************************************)
C2_PendingIntact ==
    Extracting =>
        /\ (packet_buffer_offset > 0 /\ pc # "done") =>
              PacketBytes(packet_buffer, packet_buffer_offset) = Expected(xlog).pending
        /\ \A k \in 1..Len(VideoOut) :
              k <= Len(Expected(xlog).emitted)
                  => VideoOut[k].data = Expected(xlog).emitted[k].data

\* a parameter set, an audio frame and then an access unit were read while
\* an audio stream was established
C2_Scenario ==
    /\ pc = "done"
    /\ a_stream # NullStream
    /\ \E i, j, k \in 1..Len(xlog) :
          /\ i < j /\ j < k
          /\ IsPS(xlog[i])
          /\ xlog[j].tag = HXAF
          /\ HasUnitType(xlog[k]) /\ ~IsPS(xlog[k])

(***************************************************************************)
(* C3.  An input of well-formed packets without an end-of-stream packet    *)
(* that ends at a packet boundary makes neither pass fail with the fatal   *)
(* premature-end-of-file error.                                            *)
(***************************************************************************)
WellFormedNoFI ==
    /\ ~input.fi
    /\ input.cut = 0
    /\ Len(input.body) > 0
    /\ \A i \in 1..Len(input.body) : input.body[i].k \in {HXVS, HXVF, HXAF}

C3_EofTolerated == WellFormedNoFI => ~(pc = "fatal" /\ err = "premature_eof")

(***************************************************************************)
(* C4.  Once a pass has read the header of a video or audio packet whose   *)
(* declared payload is not wholly in the file, the run does not complete,  *)
(* its fatal error is the truncation error, and every packet handed to the *)
(* muxer ends with the complete payload of the packet that triggered it.   *)
(***************************************************************************)
Truncated(r) ==
    \/ r.tag = HXVF /\ r.off + TagSize + HXVFFrameSize + r.a > Len(file)
    \/ r.tag = HXAF /\ r.a >= 4 /\ r.off + TagSize + HXAFFrameSize + r.a - 4 > Len(file)

Suffix(q, n) == SubSeq(q, Len(q) - n + 1, Len(q))

\* the payload, as the file holds it, of the packet at offset o that triggers
\* an emission on stream st
SourcePayload(o, st) ==
    IF st = v_stream
    THEN SubSeq(file, o + TagSize + HXVFFrameSize + 1,
                o + TagSize + HXVFFrameSize + U32At(o + 4))
    ELSE SubSeq(file, o + TagSize + HXAFFrameSize + 1,
                o + TagSize + HXAFFrameSize + U32At(o + 4) - 4)
DeclaredPayload(o, st) == IF st = v_stream THEN U32At(o + 4) ELSE U32At(o + 4) - 4

WholePayload(p) ==
    /\ Len(SourcePayload(p.src, p.stream)) = DeclaredPayload(p.src, p.stream)
    /\ Len(p.data) >= DeclaredPayload(p.src, p.stream)
    /\ Suffix(p.data, DeclaredPayload(p.src, p.stream)) = SourcePayload(p.src, p.stream)

C4_Truncation ==
    /\ \A i \in 1..Len(ilog) :
          Truncated(ilog[i]) =>
              /\ pc \notin {"trailer", "done"}
              /\ pc = "fatal" => err = "premature_eof"
    /\ \A i \in 1..Len(xlog) : ~Truncated(xlog[i])
    /\ \A k \in 1..Len(out) : WholePayload(out[k])

C4_Witness ==
    /\ pc = "fatal"
    /\ err = "premature_eof"
    /\ input.cut = 1
    /\ Len(ilog) = 3
    /\ ilog[3].tag = HXVF
    /\ Truncated(ilog[3])

(***************************************************************************)
(* C5.  Relative timestamps.  RelOf is raw - initial for an emitted        *)
(* packet, initial being the raw timestamp of the first packet of its type *)
(* in the file.                                                            *)
(***************************************************************************)
TagOfStream(st) == IF st = v_stream THEN HXVF ELSE HXAF
TimeBaseOf(st) == IF st = v_stream THEN time_base.v ELSE time_base.a
RelOf(p) == U32At(p.src + 8) - FirstRaw(xlog, TagOfStream(p.stream))
IsFirstOfType(p) == p.src = OfTag(xlog, TagOfStream(p.stream))[1].off

LastRaw(log, t) == OfTag(log, t)[Len(OfTag(log, t))].b

\* C5 as claimed.  First pass: the packets of a type are counted with the
\* relative timestamp raw - initial, 0 for the first, never negative.  Second
\* pass: the first packet of a type is emitted at 0, every emitted timestamp
\* is non-negative, and with a 1/1000 time base it equals raw - initial.
C5_NonNegative ==
    /\ video_ts_initial # 0 - 1 =>
          /\ video_ts_initial = FirstRaw(ilog, HXVF)
          /\ video_ts_prev = LastRaw(ilog, HXVF) - FirstRaw(ilog, HXVF)
          /\ video_ts_prev >= 0
    /\ audio_ts_initial # 0 - 1 =>
          /\ audio_ts_initial = FirstRaw(ilog, HXAF)
          /\ audio_ts_prev = LastRaw(ilog, HXAF) - FirstRaw(ilog, HXAF)
          /\ audio_ts_prev >= 0
    /\ Extracting =>
          \A k \in 1..Len(out) :
              /\ IsFirstOfType(out[k]) => out[k].pts = 0
              /\ out[k].pts >= 0
              /\ TimeBaseOf(out[k].stream) = << 1, 1000 >> => out[k].pts = RelOf(out[k])

\* What the code does keep of C5: the reference is the first raw timestamp
\* of the type, the first packet of a type is emitted at 0 and every emitted
\* timestamp is raw - initial in ticks of the time base (negative when a
\* packet's raw timestamp is below the first one's).
C5_Rebased ==
    /\ video_ts_initial # 0 - 1 => video_ts_initial = FirstRaw(ilog, HXVF)
    /\ audio_ts_initial # 0 - 1 => audio_ts_initial = FirstRaw(ilog, HXAF)
    /\ Extracting =>
          \A k \in 1..Len(out) :
              /\ IsFirstOfType(out[k]) => out[k].pts = 0
              /\ RelOf(out[k]) >= 0 => out[k].pts >= 0
              /\ NearestTick(out[k].pts, RelOf(out[k]), TimeBaseOf(out[k].stream))
              /\ TimeBaseOf(out[k].stream) = << 1, 1000 >> => out[k].pts = RelOf(out[k])

C5_NegativePts ==
    /\ pc = "done"
    /\ time_base.v = << 1, 1000 >>
    /\ Len(VideoOut) = 3
    /\ VideoOut[1].pts = 0
    /\ VideoOut[2].pts = 0 - 40
    /\ VideoOut[3].pts = 40

(***************************************************************************)
(* C6.  For N >= 2 video packets whose timestamps start anywhere and grow  *)
(* by a constant interval D, the first pass ends with an average frame     *)
(* rate of 1000 / D.                                                       *)
(***************************************************************************)
C6_RateIs1000OverD ==
    (pc = "rewind" /\ Len(input.body) >= 2) =>
        NearRatio(video_avg_frame_rate, 1000, input.body[2].b - input.body[1].b)

(***************************************************************************)
(* C7.  While no positive video frame rate has been computed no stream is  *)
(* created, no header is written and no packet is emitted; a first pass    *)
(* that ends without one makes the run abort with the no-video error.      *)
(***************************************************************************)
C7_NoVideoDetected ==
    /\ ~DblPositive(video_avg_frame_rate) =>
          /\ streams = << >>
          /\ v_stream = NullStream
          /\ ~header_written
          /\ out = << >>
          /\ pc \in {"infer", "rewind", "fatal"}
    /\ (pc = "fatal" /\ hxfi_detected /\ ~DblPositive(video_avg_frame_rate)) =>
          err = "no_video"
    /\ err = "no_video" => ~DblPositive(video_avg_frame_rate)

C7_Witness ==
    /\ pc = "fatal"
    /\ err = "no_video"
    /\ Len(OfTag(ilog, HXVF)) = 1
    /\ streams = << >>

(***************************************************************************)
(* C8.  An input of video packets only, ended by an end-of-stream packet,  *)
(* with a positive video rate completes: the run fails only when no        *)
(* positive video rate was computed or its environment failed; and it      *)
(* creates no audio stream and emits no audio packet.                      *)
(***************************************************************************)
\* the run was ended by its environment alone: a call of the muxer's setup
\* failed (before the header; a codec context that is NULL kills the
\* process), the muxer refused a packet, or the allocator returned NULL
EnvironmentExit ==
    /\ pc = "fatal"
    /\ IF header_written THEN err \in {"oom", "write_frame"}
       ELSE err \in SetupErrors /\ out = << >> /\ DblPositive(video_avg_frame_rate)

C8_VideoOnly ==
    /\ pc = "fatal" =>
          \/ err = "no_video" /\ ~DblPositive(video_avg_frame_rate)
          \/ EnvironmentExit
    /\ a_stream = NullStream
    /\ \A i \in 1..Len(streams) : streams[i].codec = "h264"
    /\ AudioOut = << >>

\* a video-only file with a positive rate and the end-of-stream packet whose
\* first payload is empty: the second pass is killed at its first packet
C8_CrashOnEmptyPayload ==
    /\ pc = "fatal"
    /\ err = "segv"
    /\ header_written
    /\ DblPositive(video_avg_frame_rate)
    /\ input.fi
    /\ input.body = << VF(<< >>, 0), VF(PSL, 40) >>
    /\ out = << >>

(***************************************************************************)
(* C9.  An audio stream exists exactly when the streams were set up with   *)
(* audio not disabled and a positive audio sample rate; without one no     *)
(* audio packet is emitted, video is emitted as the coalescing rule says,  *)
(* and an audio packet is passed by a seek of length - 4 bytes that leaves *)
(* the buffer alone.                                                       *)
(***************************************************************************)
C9_State ==
    /\ a_stream # NullStream =>
          /\ ~skip_audio
          /\ DblPositive(audio_avg_sample_rate)
          /\ pc \notin {"infer", "rewind"}
    /\ header_written =>
          (a_stream # NullStream <=>
              (~skip_audio /\ DblPositive(audio_avg_sample_rate)))
    /\ Len(streams) = (IF v_stream # NullStream THEN 1 ELSE 0)
                      + (IF a_stream # NullStream THEN 1 ELSE 0)
    /\ a_stream = NullStream =>
          /\ AudioOut = << >>
          /\ Extracting => SameVideo(VideoOut, Expected(xlog).emitted)

AtAudioPacket ==
    /\ pc = "extract"
    /\ Avail(pos) >= TagSize + HXAFFrameSize
    /\ U32At(pos.r) = HXAF

C9_Skip ==
    (AtAudioPacket /\ a_stream = NullStream) =>
        /\ UNCHANGED << bufvars, out >>
        /\ pos' = WPlus(WAdd(pos, TagSize + HXAFFrameSize), U32Sub4(U32At(pos.r + 4)))

C9_NoAudioStream == [](C9_State) /\ [][C9_Skip]_vars

C9_Witness ==
    /\ pc = "done"
    /\ skip_audio
    /\ DblPositive(audio_avg_sample_rate)
    /\ a_stream = NullStream
    /\ Len(OfTag(xlog, HXAF)) = 2
    /\ Len(out) = 2

(***************************************************************************)
(* C10.  The packets handed to the muxer are, in order, those triggered by *)
(* the source packets read so far that trigger one (a video packet that is *)
(* no parameter set; an audio packet when an audio stream exists): none is *)
(* missing, deferred or out of place.                                      *)
(***************************************************************************)
Triggers(r) ==
    \/ r.tag = HXVF /\ ~IsPS(r)
    \/ r.tag = HXAF /\ a_stream # NullStream

C10_SourceOrder ==
    Extracting =>
        LET trig == SelectSeq(xlog, Triggers)
        IN  /\ Len(out) = Len(trig)
            /\ \A k \in 1..Len(out) :
                  /\ out[k].src = trig[k].off
                  /\ TagOfStream(out[k].stream) = trig[k].tag
                  /\ WholePayload(out[k])

C10_Witness ==
    /\ pc = "done"
    /\ Len(out) = 3
    /\ out[1].stream = a_stream
    /\ out[2].stream = v_stream
    /\ out[3].stream = a_stream
    /\ out[1].src < out[2].src
    /\ out[2].src < out[3].src

(***************************************************************************)
(* C11.  End to end: a video-size descriptor, video-frame packets at a     *)
(* constant interval from timestamp 0, each a single NAL that is no        *)
(* parameter set, and an end-of-stream packet.  For 1920x1080 and the      *)
(* timestamps 0, 83, 166, 249 the first pass reports 1920x1080 and the     *)
(* rate 1000/83 (12 fps rounded), and the second pass emits 4 video        *)
(* packets at 0, 83, 166, 249 and no audio packet.                         *)
(***************************************************************************)
FramePayloads == {IDR, PSL}
FrameSizes == { << 1920, 1080 >>, << 640, 480 >> }
FrameIntervals == {83, 40}
InitE2E ==
    InitWith(UNION { { << VS(wh[1], wh[2]) >>
                         \o [i \in 1..Len(ks) |-> VF(ks[i], d * (i - 1))] :
                         wh \in FrameSizes, d \in FrameIntervals } :
                     ks \in SeqsUpTo(FramePayloads, MaxFrames) },
             {TRUE}, {0}, BOOLEAN)
SpecE2E == InitE2E /\ [][Next]_vars

E2EBody == << VS(1920, 1080), VF(IDR, 0), VF(PSL, 83), VF(PSL, 166), VF(PSL, 249) >>

C11_EndToEnd ==
    LET n == Len(input.body) - 1
        d == IF n >= 2 THEN input.body[3].b - input.body[2].b ELSE 0
    IN  /\ (n >= 2 /\ pc = "fatal") => EnvironmentExit
        /\ (n >= 2 /\ pc \in {"rewind", "extract", "trailer", "done"}) =>
              /\ dims_set
              /\ video_w = input.body[1].a
              /\ video_h = input.body[1].b
              /\ NearRatio(video_avg_frame_rate, 1000, d)
        /\ (n >= 2 /\ header_written) =>
              /\ streams[1].width = input.body[1].a
              /\ streams[1].height = input.body[1].b
              /\ d = 83 => streams[1].rate = 12
        /\ AudioOut = << >>
        /\ a_stream = NullStream
        /\ pc = "done" =>
              /\ Len(out) = n
              /\ \A k \in 1..Len(out) :
                    /\ out[k].stream = v_stream
                    /\ out[k].data = input.body[k + 1].data
                    /\ NearestTick(out[k].pts, d * (k - 1), time_base.v)
                    /\ time_base.v = << 1, 1000 >> => out[k].pts = d * (k - 1)

C11_Witness ==
    /\ pc = "done"
    /\ input.body = E2EBody
    /\ video_w = 1920
    /\ video_h = 1080
    /\ NearRatio(video_avg_frame_rate, 1000, 83)
    /\ streams[1].rate = 12
    /\ time_base.v = << 1, 1000 >>
    /\ Len(out) = 4
    /\ out[1].pts = 0 /\ out[2].pts = 83 /\ out[3].pts = 166 /\ out[4].pts = 249

(***************************************************************************)
(* C12.  The alternate video-size descriptor (HXVT) is handled in both     *)
(* passes like HXVS: the 12-byte header is consumed, so the next tag is    *)
(* read 16 bytes further; the first pass records the width and the height  *)
(* the packet holds; and the tag is not reported as unknown.               *)
(***************************************************************************)
\* the tags that have a case in the switch of a pass
CaseTags == {HXVS, HXVF, HXAF, HXFI}

\* the record of an iteration that took the default branch
Warned(r) == r.tag \notin CaseTags

SizeLikeHXVS(log) ==
    \A i \in 1..Len(log) :
        log[i].tag = HXVT =>
            /\ ~Warned(log[i])
            /\ i < Len(log) => log[i + 1].off = log[i].off + TagSize + HXVSFrameSize

C12_HXVTLikeHXVS ==
    /\ SizeLikeHXVS(ilog)
    /\ SizeLikeHXVS(xlog)
    /\ \A i \in 1..Len(ilog) :
          ilog[i].tag = HXVT =>
              /\ dims_set
              /\ ilog[i].a = U32At(ilog[i].off + 4)
              /\ ilog[i].b = U32At(ilog[i].off + 8)
              /\ i = Len(ilog) => video_w = ilog[i].a /\ video_h = ilog[i].b

\* the run on HXVT(640x480), HXVF, HXVF, HXFI: the size is never recorded
C12_SizeLost ==
    /\ pc = "done"
    /\ input.body = << VT(640, 480), VF(SPS, 0), VF(PSL, 40) >>
    /\ ~dims_set
    /\ [i \in 1..Len(ilog) |-> ilog[i].tag] = << HXVT, 640, 480, 0, HXVF, HXVF, HXFI >>
    /\ [i \in 1..Len(xlog) |-> xlog[i].tag] = << HXVT, 640, 480, 0, HXVF, HXVF, HXFI >>

(***************************************************************************)
(* C13.  A tag outside the known codes is not fatal by itself: in either   *)
(* pass the iteration reports it and reads nothing more than the 4 bytes   *)
(* of the tag, no packet is emitted for it and nothing else of the state   *)
(* changes; the next iteration takes the next 4 bytes as the next tag.     *)
(***************************************************************************)
KnownTags == {HXVS, HXVT, HXVF, HXAF, HXFI}

UnknownTagAhead == Avail(pos) >= TagSize /\ U32At(pos.r) \notin KnownTags

C13_Step ==
    /\ (pc = "infer" /\ UnknownTagAhead) =>
          /\ pc' \in {"infer", "rewind"}
          /\ err' = err
          /\ pos' = WAdd(pos, TagSize)
          /\ ilog' = Append(ilog, LogRec(pos.r, U32At(pos.r), 0, 0))
          /\ UNCHANGED << infvars, muxvars, bufvars, out, xlog, hxfi_detected >>
    /\ (pc = "extract" /\ UnknownTagAhead) =>
          /\ pc' \in {"extract", "trailer"}
          /\ err' = err
          /\ pos' = WAdd(pos, TagSize)
          /\ xlog' = Append(xlog, LogRec(pos.r, U32At(pos.r), 0, 0))
          /\ UNCHANGED << infvars, muxvars, bufvars, out, ilog, hxfi_detected >>

NextTagFollows(log) ==
    \A i \in 1..Len(log) :
        log[i].tag \notin KnownTags =>
            /\ Warned(log[i])
            /\ i < Len(log) => /\ log[i + 1].off = log[i].off + TagSize
                               /\ log[i + 1].tag = U32At(log[i].off + TagSize)
            /\ \A k \in 1..Len(out) : out[k].src # log[i].off

C13_UnknownTagSkipped ==
    /\ [](NextTagFollows(ilog) /\ NextTagFollows(xlog))
    /\ [][C13_Step]_vars

C13_Witness ==
    /\ pc = "done"
    /\ input.body = << VF(SPS, 0), Junk, VF(PSL, 40) >>
    /\ Len(out) = 1
    /\ \E i \in 1..Len(ilog) : ilog[i].tag = Junk.k /\ ilog[i + 1].tag = HXVF
    /\ \E i \in 1..Len(xlog) : xlog[i].tag = Junk.k /\ xlog[i + 1].tag = HXVF

(***************************************************************************)
(* C14.  A pass reads the tag and then the fixed-size header of the tag    *)
(* (HXVS 12, HXVF 12, HXAF 16, HXFI 16 bytes) and aborts with a premature  *)
(* end of file when fewer bytes are left: an iteration that a pass has     *)
(* completed for a tag with a case had the tag and its whole header in     *)
(* the file.                                                               *)
(***************************************************************************)
HeaderSize(tag) ==
    CASE tag = HXVS -> HXVSFrameSize
      [] tag = HXVF -> HXVFFrameSize
      [] tag = HXAF -> HXAFFrameSize
      [] tag = HXFI -> HXFIFrameSize

HeaderInFile(r) == r.off + TagSize + HeaderSize(r.tag) <= Len(file)

C14_HeaderTruncation ==
    /\ \A i \in 1..Len(ilog) : ilog[i].tag \in CaseTags => HeaderInFile(ilog[i])
    /\ \A i \in 1..Len(xlog) : xlog[i].tag \in CaseTags => HeaderInFile(xlog[i])

\* a run that completes although the header of the end-of-stream packet is cut
C14_CutEndMarker ==
    /\ pc = "done"
    /\ input.body = << VF(SPS, 0), VF(PSL, 40) >>
    /\ input.fi
    /\ input.cut = 8
    /\ Len(out) = 1
    /\ ~HeaderInFile(xlog[Len(xlog)])

(***************************************************************************)
(* C15.  First pass: a video-frame or audio-frame packet whose relative    *)
(* timestamp (raw minus the first of its type) does not exceed that of the *)
(* previous packet of its type leaves the rate estimate and the packet     *)
(* count of its type unchanged, and the scan goes on with the next packet. *)
(***************************************************************************)
\* a packet of tag t with its whole header is next in the first pass, and it
\* is not the first of its type
LaterPacketAhead(t) ==
    /\ pc = "infer"
    /\ Avail(pos) >= TagSize + HeaderSize(t)
    /\ U32At(pos.r) = t
    /\ OfTag(ilog, t) # << >>

NotLater(t) ==
    /\ LaterPacketAhead(t)
    /\ U32At(pos.r + 8) - FirstRaw(ilog, t) <= LastRaw(ilog, t) - FirstRaw(ilog, t)

C15_Step ==
    /\ NotLater(HXVF) =>
          /\ UNCHANGED << video_avg_frame_rate, video_packets_count >>
          /\ pc' = "infer"
          /\ err' = err
          /\ pos' = WAdd(pos, TagSize + HXVFFrameSize + U32At(pos.r + 4))
    /\ NotLater(HXAF) =>
          /\ UNCHANGED << audio_avg_sample_rate, audio_packets_count >>
          /\ pc' = "infer"
          /\ err' = err
          /\ pos' = WPlus(WAdd(pos, TagSize + HXAFFrameSize), U32Sub4(U32At(pos.r + 4)))

C15_NotLaterIgnored == [][C15_Step]_vars

C15_Witness ==
    /\ pc = "done"
    /\ [i \in 1..Len(ilog) |-> << ilog[i].tag, ilog[i].b >>]
         = << << HXVF, 0 >>, << HXVF, 80 >>, << HXVF, 40 >>, << HXFI, 0 >> >>
    /\ video_packets_count = 1
    /\ NearRatio(video_avg_frame_rate, 25, 2)
    /\ Len(out) = 3

(***************************************************************************)
(* C16.  The timestamp reference of a stream type (video_ts_initial,       *)
(* audio_ts_initial) is set once, by the first packet of that type the     *)
(* first pass reads, to the raw timestamp of that packet; no later step of *)
(* the first pass and no step of the second pass changes it.               *)
(***************************************************************************)
ReferenceOf(t) == IF OfTag(ilog, t) = << >> THEN 0 - 1 ELSE FirstRaw(ilog, t)

FirstPacketAhead(t) ==
    /\ pc = "infer"
    /\ Avail(pos) >= TagSize + HeaderSize(t)
    /\ U32At(pos.r) = t
    /\ OfTag(ilog, t) = << >>

C16_State ==
    /\ video_ts_initial = ReferenceOf(HXVF)
    /\ audio_ts_initial = ReferenceOf(HXAF)

C16_Step ==
    /\ video_ts_initial # 0 - 1 => video_ts_initial' = video_ts_initial
    /\ audio_ts_initial # 0 - 1 => audio_ts_initial' = audio_ts_initial
    /\ video_ts_initial' # video_ts_initial =>
          FirstPacketAhead(HXVF) /\ video_ts_initial' = U32At(pos.r + 8)
    /\ audio_ts_initial' # audio_ts_initial =>
          FirstPacketAhead(HXAF) /\ audio_ts_initial' = U32At(pos.r + 8)
    /\ Extracting => UNCHANGED << video_ts_initial, audio_ts_initial >>

C16_ReferenceSetOnce == [](C16_State) /\ [][C16_Step]_vars

C16_Witness ==
    /\ pc = "done"
    /\ [i \in 1..Len(ilog) |-> << ilog[i].tag, ilog[i].b >>]
         = << << HXAF, 80 >>, << HXVF, 40 >>, << HXVF, 0 >>, << HXVF, 80 >>, << HXFI, 0 >> >>
    /\ video_ts_initial = 40
    /\ audio_ts_initial = 80
    /\ Len(xlog) = 5

(***************************************************************************)
(* C17.  The passes do not overlap and output follows the first pass: no   *)
(* stream is added, no header written, no packet handed over and nothing   *)
(* read by the second pass while the first pass runs; the second pass      *)
(* changes nothing the first pass computed; the second pass starts at      *)
(* offset 0 after the rewind, and a rewind that fails ends the run.        *)
(***************************************************************************)
SeekAlphabet == { VS(1920, 1080), VF(SPS, 0), VF(PSL, 40), AF(A2, 0), AF(A2, 40), Junk }
InitSeek == InitFile(SeqsUpTo(SeekAlphabet, MaxPackets), {TRUE}, {0}, BOOLEAN, BOOLEAN)
SpecSeek == InitSeek /\ [][Next]_vars

NoOutputYet ==
    /\ streams = << >>
    /\ v_stream = NullStream
    /\ a_stream = NullStream
    /\ ~header_written
    /\ ~trailer_written
    /\ out = << >>
    /\ xlog = << >>

\* before the header nothing is written, handed over or read again: a setup
\* that fails has added its streams and ends the run there
C17_BeforeHeader ==
    /\ ~trailer_written
    /\ out = << >>
    /\ xlog = << >>
    /\ ~NoOutputYet =>
          /\ pc = "fatal"
          /\ err \in SetupErrors
          /\ seekable
          /\ pos = Wide(0, 0)

C17_State ==
    /\ pc \in {"infer", "rewind"} => NoOutputYet
    /\ ~header_written => C17_BeforeHeader
    /\ header_written => Extracting \/ pc = "fatal"
    /\ xlog # << >> => xlog[1].off = 0
    /\ ~seekable => NoOutputYet

C17_Step ==
    /\ pc \in {"infer", "rewind"} => xlog' = xlog
    /\ (Extracting \/ header_written) => UNCHANGED << infvars, ilog >>
    /\ (pc = "rewind" /\ pc' = "extract") => seekable /\ pos' = Wide(0, 0)
    /\ (pc = "rewind" /\ ~seekable) => pc' = "fatal" /\ err' = "seek"
    /\ pc' = "infer" => pc = "infer"

C17_PassesInSequence == [](C17_State) /\ [][C17_Step]_vars

C17_Witness ==
    /\ pc = "done"
    /\ seekable
    /\ input.body = << VS(1920, 1080), VF(SPS, 0), VF(PSL, 40) >>
    /\ Len(ilog) = 4
    /\ [i \in 1..Len(xlog) |-> xlog[i].off] = [i \in 1..Len(ilog) |-> ilog[i].off]
    /\ xlog[1].off = 0
    /\ Len(out) = 1

\* the rewind fails on an input that cannot seek: the run ends there
C17_FailedRewind ==
    /\ pc = "fatal"
    /\ err = "seek"
    /\ ~seekable
    /\ input.body = << VS(1920, 1080), Junk >>
    /\ Len(ilog) = 3
    /\ NoOutputYet

(***************************************************************************)
(* C18.  Both passes see the same packets: what the second pass has read   *)
(* is, record by record (file offset, tag, and for video and audio frames  *)
(* length and timestamp), what the first pass read, with or without an     *)
(* audio stream; when the second pass ends it has read as many records as  *)
(* the first, the last at the same offset.                                 *)
(***************************************************************************)
PassAlphabet == { VS(1920, 1080), Junk, VF(<< >>, 0), VF(IDR, 0), VF(PSL, 40),
                  AF(A2, 0), AF(A8, 40) }
PassCuts == {0, 1}
InitPass == InitWith(SeqsUpTo(PassAlphabet, MaxPackets), {TRUE}, PassCuts, BOOLEAN)
SpecPass == InitPass /\ [][Next]_vars

\* the fields of a record both passes read from the file
Seen(r) == IF r.tag \in {HXVF, HXAF}
           THEN << r.off, r.tag, r.a, r.b >>
           ELSE << r.off, r.tag >>

SameSoFar ==
    /\ Len(xlog) <= Len(ilog)
    /\ \A i \in 1..Len(xlog) : Seen(xlog[i]) = Seen(ilog[i])

C18_SamePackets ==
    /\ SameSoFar
    /\ header_written =>
          /\ pc = "fatal" => EnvironmentExit
          /\ pc \in {"trailer", "done"} =>
                /\ Len(xlog) = Len(ilog)
                /\ xlog[Len(xlog)].off = ilog[Len(ilog)].off

\* the first pass has read the two video packets and the end-of-stream
\* packet; the second pass stops at the first packet, whose payload is empty
C18_SecondPassStopsEarly ==
    /\ pc = "fatal"
    /\ err = "segv"
    /\ header_written
    /\ input.body = << VF(<< >>, 0), VF(PSL, 40) >>
    /\ Len(ilog) = 3
    /\ xlog = << >>

\* on the runs the second pass survives, it reads what the first pass read
C18_SameUnlessCrash ==
    /\ SameSoFar
    /\ (header_written /\ pc = "fatal") => err \in {"segv", "oom", "write_frame"}
    /\ pc \in {"trailer", "done"} => Len(xlog) = Len(ilog)

(***************************************************************************)
(* C19.  All video data reaches the output: when the second pass has ended *)
(* normally no parameter-set bytes are pending, and the payloads of the    *)
(* video-frame packets read, in order, are the bytes of the emitted video  *)
(* packets, in order: every payload is in exactly one emitted packet.      *)
(***************************************************************************)
RECURSIVE Joined(_)
Joined(seqs) == IF seqs = << >> THEN << >> ELSE Head(seqs) \o Joined(Tail(seqs))

VideoRead == Joined([i \in 1..Len(OfTag(xlog, HXVF)) |-> VideoPayload(OfTag(xlog, HXVF)[i])])
VideoWritten == Joined([k \in 1..Len(VideoOut) |-> VideoOut[k].data])

C19_AllVideoCopied ==
    pc \in {"trailer", "done"} =>
        /\ packet_buffer_offset = 0
        /\ VideoWritten = VideoRead

\* the run on [access unit, access unit, parameter set]: the parameter set
\* is still in the buffer when the loop has ended and the trailer is written
C19_ParameterSetLost ==
    /\ pc = "trailer"
    /\ hxfi_detected
    /\ [i \in 1..Len(input.body) |-> input.body[i].data] = << IDR, PSL, SPS >>
    /\ Len(out) = 2
    /\ VideoWritten = IDR \o PSL
    /\ packet_buffer_offset = Len(SPS)
    /\ PacketBytes(packet_buffer, packet_buffer_offset) = SPS

(***************************************************************************)
(* C20.  Each pass terminates on every file: an iteration of either loop   *)
(* moves the position forward by at least the 4 bytes of the tag or ends   *)
(* the run, the iterations of a pass are at most a quarter of the file's   *)
(* bytes, and each pass ends, normally or with a fatal error.              *)
(***************************************************************************)
LiveAlphabet == { Junk, VF(<< >>, 0), VF(IDR, 0), VF(PSL, 40), AF(A2, 0),
                  Pkt(HXAF, 2, 80, << >>) }
InitLive == InitWith(SeqsUpTo(LiveAlphabet, MaxPackets), BOOLEAN, {0}, BOOLEAN)
\* the program runs on: a step that is possible is eventually taken
SpecLive == InitLive /\ [][Next]_vars /\ WF_vars(Next)

WideGE(x, y) == x.w > y.w \/ (x.w = y.w /\ x.r >= y.r)

C20_Step ==
    /\ pc = "infer" => \/ pc' = "fatal"
                        \/ /\ WideGE(pos', WAdd(pos, TagSize))
                           /\ Len(ilog') = Len(ilog) + 1
    /\ pc = "extract" => \/ pc' = "fatal"
                          \/ /\ WideGE(pos', WAdd(pos, TagSize))
                             /\ Len(xlog') = Len(xlog) + 1
    /\ pc \in {"done", "fatal"} => UNCHANGED vars

C20_Bounded ==
    /\ TagSize * Len(ilog) <= Len(file)
    /\ TagSize * Len(xlog) <= Len(file)

C20_PassesTerminate ==
    /\ <>(pc # "infer")
    /\ (pc = "extract") ~> (pc \in {"trailer", "fatal"})
    /\ <>(pc \in {"done", "fatal"})
    /\ [](C20_Bounded)
    /\ [][C20_Step]_vars

C20_Witness ==
    /\ pc = "done"
    /\ input.body = << VF(IDR, 0), Junk, VF(PSL, 40) >>
    /\ Len(ilog) = 4
    /\ Len(xlog) = 4
    /\ Len(out) = 2

\* a pass that ends with a fatal error after a seek far beyond the end
C20_WitnessFatal ==
    /\ pc = "fatal"
    /\ err = "premature_eof"
    /\ input.body = << VF(IDR, 0), Pkt(HXAF, 2, 80, << >>) >>
    /\ pos.w > 0

(***************************************************************************)
(* C21.  Whenever the second pass inspects the NAL unit type of a video    *)
(* payload, the byte it reads (index accumulation offset + 4 of the        *)
(* buffer) is one of the bytes just read from that payload and lies inside *)
(* the allocation, for every declared length, 0 and below 5 included.      *)
(***************************************************************************)
NalPayloads == { << >>, << 0 >>, << 0, 0, 0, 1 >>, PSL, SPS }
InitNal == InitWith({ [i \in 1..Len(ks) |-> VF(ks[i], 40 * (i - 1))] :
                        ks \in SeqsUpTo(NalPayloads, MaxVideo) },
                    {TRUE}, {0}, {FALSE})
SpecNal == InitNal /\ [][Next]_vars

\* the second pass is at a video-frame packet whose header is in the file
AtVideoPacket ==
    /\ pc = "extract"
    /\ Avail(pos) >= TagSize + HXVFFrameSize
    /\ U32At(pos.r) = HXVF

\* the read the second pass makes for the packet ahead, allocations succeeding
ReadAhead == ReadToBuffer(WAdd(pos, TagSize + HXVFFrameSize), packet_buffer,
                           packet_buffer_offset, U32At(pos.r + 4), packet_buffer_length,
                           TRUE)

\* the payload was read whole, so the unit type is inspected
Inspecting == AtVideoPacket /\ ReadAhead.ret >= U32At(pos.r + 4)

C21_InspectedByteInBounds ==
    Inspecting =>
        /\ packet_buffer_offset + 4 < packet_buffer_offset + ReadAhead.ret
        /\ packet_buffer_offset + 4 < Len(ReadAhead.buf)
        /\ Crash \notin NalOutcomes(ReadAhead.buf, packet_buffer_offset)

\* an empty first payload: the buffer is still the NULL pointer when the
\* unit type is read, and the process is killed
C21_NullInspected ==
    /\ pc = "fatal"
    /\ err = "segv"
    /\ header_written
    /\ input.body[1].data = << >>
    /\ packet_buffer = << >>
    /\ xlog = << >>

\* a 1-byte payload after a packet that began with a parameter set: the byte
\* inspected is the NAL byte the parameter set left in the buffer, and the
\* 1-byte payload is kept as if it were a parameter set
C21_StaleInspected ==
    /\ pc = "done"
    /\ [i \in 1..Len(input.body) |-> input.body[i].data] = << SPS, PSL, << 0 >>, PSL >>
    /\ Len(out) = 2
    /\ out[1].data = SPS \o PSL
    /\ out[2].data = << 0 >> \o PSL

(***************************************************************************)
(* C22.  ReadToBuffer: the recorded size never exceeds the allocated       *)
(* capacity; a call writes only at the indices from offset to offset +     *)
(* length, which lie inside the capacity; a call with offset > 0 leaves    *)
(* the bytes before offset as they were, grown buffer or not.              *)
(***************************************************************************)
\* the read the second pass makes for the audio packet ahead, allocations
\* succeeding
AudioReadAhead == ReadToBuffer(WAdd(pos, TagSize + HXAFFrameSize), packet_buffer, 0,
                               U32Sub4(U32At(pos.r + 4)).r, packet_buffer_length, TRUE)

\* rd is the result of a call on the buffer dest at dest_offset for length bytes
CallKeepsBuffer(dest, dest_offset, length, rd) ==
    /\ rd.size <= Len(rd.buf)
    /\ rd.ret <= length
    /\ length > 0 => dest_offset + length <= Len(rd.buf)
    /\ \A i \in 1..Len(rd.buf) :
          IF i > dest_offset /\ i <= dest_offset + rd.ret
          THEN rd.buf[i] = file[rd.pos.r - rd.ret + (i - dest_offset)]
          ELSE \/ i <= Len(dest) /\ rd.buf[i] = dest[i]
               \/ rd.buf[i] = Indet
    /\ (dest_offset > 0 /\ dest_offset <= Len(dest)) =>
          /\ Len(rd.buf) >= dest_offset
          /\ \A i \in 1..dest_offset : rd.buf[i] = dest[i]

C22_BufferInvariants ==
    /\ pc # "done" => packet_buffer_length <= Len(packet_buffer)
    /\ AtVideoPacket =>
          CallKeepsBuffer(packet_buffer, packet_buffer_offset, U32At(pos.r + 4), ReadAhead)
    /\ (AtAudioPacket /\ a_stream # NullStream /\ U32At(pos.r + 4) >= 4) =>
          CallKeepsBuffer(packet_buffer, 0, U32At(pos.r + 4) - 4, AudioReadAhead)

\* two parameter sets and an access unit: the buffer grew twice with an
\* offset, and the packet holds the three payloads
C22_Witness ==
    /\ pc = "trailer"
    /\ [i \in 1..Len(input.body) |-> input.body[i].data] = << SPS, SPS, IDR >>
    /\ packet_buffer = SPS \o SPS \o IDR
    /\ packet_buffer_length = 19
    /\ Len(out) = 1
    /\ out[1].data = SPS \o SPS \o IDR

(***************************************************************************)
(* C23.  An audio-frame packet of declared length below 4 never gives an   *)
(* emitted audio packet: length - 4 wraps to 2^32 + length - 4, the skip   *)
(* of the first pass leaves the position that far beyond the packet's      *)
(* header, past the end of the file, and the run aborts at the next read;  *)
(* the second pass never reads such a packet.                              *)
(***************************************************************************)
ShortAlphabet == { VF(IDR, 0), VF(PSL, 40), AF(A2, 0), AF(A2, 40),
                   Pkt(HXAF, 0, 80, << >>), Pkt(HXAF, 3, 80, << >>),
                   Pkt(HXAF, 2, 40, A2) }
InitShort == InitWith(SeqsUpTo(ShortAlphabet, MaxPackets), {TRUE}, {0}, BOOLEAN)
SpecShort == InitShort /\ [][Next]_vars

IsShortAudio(r) == r.tag = HXAF /\ r.a < 4
ShortAudioRead(log) == \E i \in 1..Len(log) : IsShortAudio(log[i])

C23_State ==
    /\ ShortAudioRead(ilog) =>
          /\ IsShortAudio(ilog[Len(ilog)])
          /\ pos = [w |-> 1, r |-> ilog[Len(ilog)].off + TagSize + HXAFFrameSize
                                     + ilog[Len(ilog)].a - 4]
          /\ Avail(pos) = 0
          /\ pc \in {"infer", "fatal"}
          /\ pc = "fatal" => err = "premature_eof"
          /\ ~header_written
          /\ out = << >>
    /\ ~ShortAudioRead(xlog)
    /\ \A k \in 1..Len(AudioOut) : U32At(AudioOut[k].src + 4) >= 4

C23_Step ==
    (pc = "infer" /\ ShortAudioRead(ilog)) => pc' = "fatal" /\ err' = "premature_eof"

C23_ShortAudioAborts == [](C23_State) /\ [][C23_Step]_vars

C23_Witness ==
    /\ pc = "fatal"
    /\ err = "premature_eof"
    /\ input.body = << VF(IDR, 0), VF(PSL, 40), Pkt(HXAF, 3, 80, << >>) >>
    /\ Len(ilog) = 3
    /\ pos = [w |-> 1, r |-> 63]
    /\ out = << >>

====
